---------------------------- MODULE Spec2Model ----------------------------
(***************************************************************************)
(* Model of splitlogic.py: compute_balances and settle_debts, and of the   *)
(* way app.py (calculate) and splitlogic.main compose them.                *)
(*                                                                         *)
(* Money is exact: every quantity is an integer number of units, Cent      *)
(* units making 0.01.  Cent is odd, so no quantity of the model lies        *)
(* exactly halfway between two multiples of 0.01; neither does any binary  *)
(* floating-point number (an odd multiple of 0.005 is not a dyadic          *)
(* rational), so inside settle_debts Python's round(x, 2) is rounding to    *)
(* the nearest multiple of 0.01, without ties.  In compute_balances the     *)
(* real value of amt - total/n can be such a halfway value; the float the   *)
(* code computes then lies just above or just below it, and round() may go *)
(* either way: the model leaves that direction open.                        *)
(*                                                                         *)
(* A mapping name -> balance is a sequence of balances in insertion order; *)
(* a participant's name is its position in that order (names are unique    *)
(* keys, and the code uses them as labels only).                           *)
(***************************************************************************)
EXTENDS Integers, Sequences, FiniteSets

\* ------------------------------------------------------------------ bounds
\* settle_debts called on an arbitrary mapping: participants, |balance| in units
MaxN == 3
MaxBal == 13
\* the same, where termination is checked
MaxNF == 3
MaxBalF == 8
\* settle_debts called on a mapping in whole cents: participants, |balance| in cents
MaxNC == 4
MaxCents == 6
\* calculate(): participants, amount paid in units
MaxPeople == 4
MaxAmt == 9
\* calculate() on amounts in whole cents: participants, amount paid in cents
MaxPeopleC == 4
MaxAmtCents == 8

\* 0.01, the tolerance of settle_debts and the quantum of round(x, 2), in units
Cent == 3

VARIABLES
  pc,            \* the statement the computation is at
  names,         \* compute_balances: names
  amounts,       \* compute_balances: amounts (units)
  total_expense, \* compute_balances: sum(amounts) (units)
  equal_share,   \* compute_balances: total/n, as <<numerator, denominator>>
  balances,      \* the mapping name -> balance (units), in insertion order
  creditors,     \* settle_debts: list of [name, amount to receive]
  debtors,       \* settle_debts: list of [name, amount to pay]
  i,             \* settle_debts: index of the current debtor (0-based)
  j,             \* settle_debts: index of the current creditor (0-based)
  transactions   \* settle_debts: list of (payer, receiver, amount)

vars == <<pc, names, amounts, total_expense, equal_share, balances,
          creditors, debtors, i, j, transactions>>

\* --------------------------------------------------------------- helpers
Min(a, b) == IF b < a THEN b ELSE a

RECURSIVE SeqSum(_)
SeqSum(s) == IF s = <<>> THEN 0 ELSE Head(s) + SeqSum(Tail(s))

\* round(x, 2) of a float x: the nearest multiple of 0.01 (no ties, Cent is odd)
Round2(x) ==
  LET r == x % Cent
  IN IF 2 * r < Cent THEN x - r ELSE x + (Cent - r)

\* round(num/den, 2) for the real value num/den, den > 0; up decides a halfway case
RoundQ(num, den, up) ==
  LET D == den * Cent
      r == num % D
      lo == (num - r) \div den
  IN IF 2 * r < D THEN lo
     ELSE IF 2 * r > D THEN lo + Cent
     ELSE IF up THEN lo + Cent ELSE lo

IsTie(num, den) == 2 * (num % (den * Cent)) = den * Cent

\* ----------------------------------------------------- compute_balances
ShareOfTotalBug(total, n) == <<total, 1>>

EqualShare(total, n) == IF n > 0 THEN <<total, n>> ELSE <<0, 1>>

\* amt - equal_share, as a numerator over the denominator of equal_share
Diff(amt, share) == amt * share[2] - share[1]

Balance(amt, share, up) == RoundQ(Diff(amt, share), share[2], up)

ComputeBalances ==
  /\ pc = "compute"
  /\ \E up \in [1..Len(names) -> BOOLEAN] :
       LET total == SeqSum(amounts)
           share == EqualShare(total, Len(names))
       IN /\ total_expense' = total
          /\ equal_share' = share
          /\ balances' = [k \in 1..Len(names) |-> Balance(amounts[k], share, up[k])]
  /\ pc' = "classify"
  /\ UNCHANGED <<names, amounts, creditors, debtors, i, j, transactions>>

\* --------------------------------------------------------- settle_debts
IsCreditorNoTolerance(bal) == bal > 0

IsCreditor(bal) == bal > Cent

IsDebtorNoTolerance(bal) == ~IsCreditor(bal) /\ bal < 0

IsDebtor(bal) == ~IsCreditor(bal) /\ bal < -Cent

RECURSIVE Partition(_, _, _)
\* the entries of bals from position k on that satisfy the role, in insertion order
Partition(bals, k, credit) ==
  IF k > Len(bals) THEN <<>>
  ELSE LET rest == Partition(bals, k + 1, credit)
       IN IF credit /\ IsCreditor(bals[k])
            THEN <<[name |-> k, amt |-> bals[k]]>> \o rest
          ELSE IF ~credit /\ IsDebtor(bals[k])
            THEN <<[name |-> k, amt |-> -bals[k]]>> \o rest
          ELSE rest

Classify ==
  /\ pc = "classify"
  /\ creditors' = Partition(balances, 1, TRUE)
  /\ debtors' = Partition(balances, 1, FALSE)
  /\ pc' = "sort"
  /\ UNCHANGED <<names, amounts, total_expense, equal_share, balances,
                 i, j, transactions>>

\* list.sort(key=amount, reverse=True): descending, equal keys keep their order
GoesBeforeUnstable(x, y) == x.amt >= y.amt

\* whether x, met later in the list than y, is placed before y
GoesBefore(x, y) == x.amt > y.amt

RECURSIVE Insert(_, _)
\* s is sorted; x came after every element of s in the original list
Insert(s, x) ==
  IF s = <<>> THEN <<x>>
  ELSE LET last == s[Len(s)]
       IN IF GoesBefore(x, last)
            THEN Insert(SubSeq(s, 1, Len(s) - 1), x) \o <<last>>
            ELSE s \o <<x>>

RECURSIVE SortDesc(_)
SortDesc(s) ==
  IF s = <<>> THEN <<>>
  ELSE Insert(SortDesc(SubSeq(s, 1, Len(s) - 1)), s[Len(s)])

Sort ==
  /\ pc = "sort"
  /\ creditors' = SortDesc(creditors)
  /\ debtors' = SortDesc(debtors)
  /\ i' = 0
  /\ j' = 0
  /\ transactions' = <<>>
  /\ pc' = "loop"
  /\ UNCHANGED <<names, amounts, total_expense, equal_share, balances>>

LoopCond == i < Len(debtors) /\ j < Len(creditors)

AmountMaxBug(debtor_owes, creditor_receives) ==
  Round2(IF debtor_owes < creditor_receives THEN creditor_receives ELSE debtor_owes)

Amount(debtor_owes, creditor_receives) == Round2(Min(debtor_owes, creditor_receives))

TxSameNameBug(debtor_name, creditor_name, amount) ==
  [payer |-> creditor_name, receiver |-> creditor_name, amount |-> amount]

Tx(debtor_name, creditor_name, amount) ==
  [payer |-> debtor_name, receiver |-> creditor_name, amount |-> amount]

SettledNever(remaining) == remaining < 0

SettledAtOneCent(remaining) == remaining <= Cent

Settled(remaining) == remaining < Cent

LoopStep ==
  /\ pc = "loop"
  /\ LoopCond
  /\ LET d == debtors[i + 1]
         c == creditors[j + 1]
         amount == Amount(d.amt, c.amt)
         debtor_owes == Round2(d.amt - amount)
         creditor_receives == Round2(c.amt - amount)
     IN /\ transactions' = IF amount > 0
                             THEN Append(transactions, Tx(d.name, c.name, amount))
                             ELSE transactions
        /\ debtors' = [debtors EXCEPT ![i + 1].amt = debtor_owes]
        /\ creditors' = [creditors EXCEPT ![j + 1].amt = creditor_receives]
        /\ i' = IF Settled(debtor_owes) THEN i + 1 ELSE i
        /\ j' = IF Settled(creditor_receives) THEN j + 1 ELSE j
  /\ UNCHANGED <<pc, names, amounts, total_expense, equal_share, balances>>

Return ==
  /\ pc = "loop"
  /\ ~LoopCond
  /\ pc' = "done"
  /\ UNCHANGED <<names, amounts, total_expense, equal_share, balances,
                 creditors, debtors, i, j, transactions>>

\* ------------------------------------------------------- specifications
Mappings(n, lo, hi, step) ==
  UNION {[1..m -> {step * v : v \in lo..hi}] : m \in 0..n}

InitSettle(bals) ==
  /\ pc = "classify"
  /\ names = <<>>
  /\ amounts = <<>>
  /\ total_expense = 0
  /\ equal_share = <<0, 1>>
  /\ balances \in bals
  /\ creditors = <<>>
  /\ debtors = <<>>
  /\ i = 0
  /\ j = 0
  /\ transactions = <<>>

\* settle_debts(balances) on any mapping
Init == InitSettle(Mappings(MaxN, -MaxBal, MaxBal, 1))

\* settle_debts(balances) on any mapping in whole cents
InitCents == InitSettle(Mappings(MaxNC, -MaxCents, MaxCents, Cent))

\* calculate() / main(): compute_balances(names, amounts), then settle_debts
InitCalcOn(amts) ==
  /\ pc = "compute"
  /\ amounts \in amts
  /\ names = [k \in 1..Len(amounts) |-> k]
  /\ total_expense = 0
  /\ equal_share = <<0, 1>>
  /\ balances = <<>>
  /\ creditors = <<>>
  /\ debtors = <<>>
  /\ i = 0
  /\ j = 0
  /\ transactions = <<>>

InitCalc == InitCalcOn(Mappings(MaxPeople, 0, MaxAmt, 1))

WholeCents(s) == \A k \in 1..Len(s) : s[k] % Cent = 0

NoTie(amts) ==
  LET share == EqualShare(SeqSum(amts), Len(amts))
  IN \A k \in 1..Len(amts) : ~IsTie(Diff(amts[k], share), share[2])

\* calculate() on amounts in whole cents none of whose balances is a halfway case
InitCalcExact ==
  InitCalcOn(Mappings(MaxPeopleC, 0, MaxAmtCents, Cent)) /\ NoTie(amounts)

Next == Classify \/ Sort \/ LoopStep \/ Return

NextCalc == ComputeBalances \/ Classify \/ Sort \/ LoopStep \/ Return

Spec == Init /\ [][Next]_vars

InitFair == InitSettle(Mappings(MaxNF, -MaxBalF, MaxBalF, 1))

\* sequential code: the next statement is always executed
SpecFair == InitFair /\ [][Next]_vars /\ WF_vars(Next)

SpecCents == InitCents /\ [][Next]_vars

SpecCalc == InitCalc /\ [][NextCalc]_vars

SpecCalcExact == InitCalcExact /\ [][NextCalc]_vars

\* ----------------------------------------------------------------- claims
Done == pc = "done"

Abs(x) == IF x < 0 THEN -x ELSE x

Settling == pc \in {"loop", "done"}

People == 1..Len(balances)

TxIdx == 1..Len(transactions)

\* what the transactions tell participant k to pay, and to receive
Paid(k) ==
  SeqSum([t \in TxIdx |->
            IF transactions[t].payer = k THEN transactions[t].amount ELSE 0])

Received(k) ==
  SeqSum([t \in TxIdx |->
            IF transactions[t].receiver = k THEN transactions[t].amount ELSE 0])

TotalAmount == SeqSum([t \in TxIdx |-> transactions[t].amount])

\* the roles as the claims define them, from the input balances
NumCreditors == Cardinality({k \in People : balances[k] > Cent})

NumDebtors == Cardinality({k \in People : balances[k] < -Cent})

TotalCredit ==
  SeqSum([k \in People |-> IF balances[k] > Cent THEN balances[k] ELSE 0])

TotalDebt ==
  SeqSum([k \in People |-> IF balances[k] < -Cent THEN -balances[k] ELSE 0])

Remaining(list) == SeqSum([k \in 1..Len(list) |-> list[k].amt])

\* C1: after compute_balances and settle_debts, applying every transaction
\* (payer's balance increased, receiver's decreased by the amount) leaves
\* every participant's balance within 0.01 of zero.
C1_SettlementZeroesBalances ==
  Done => \A k \in People : Abs(balances[k] + Paid(k) - Received(k)) <= Cent

C3_LeftoverImpliesNonZeroSum ==
  (/\ Done
   /\ WholeCents(balances)
   /\ \/ \E k \in 1..Len(creditors) : creditors[k].amt >= Cent
      \/ \E k \in 1..Len(debtors) : debtors[k].amt >= Cent)
    => SeqSum(balances) # 0

\* C4: every transaction has an amount > 0 and a payer different from its
\* receiver; a debtor and a creditor whose needs match exactly give no
\* zero-amount transaction.
C4_PositiveAndDistinct ==
  \A t \in TxIdx :
    /\ transactions[t].amount > 0
    /\ transactions[t].payer # transactions[t].receiver

\* one iteration settled the last debtor and the last creditor together
C4_Witness ==
  /\ Done
  /\ Len(debtors) = 2
  /\ Len(creditors) = 1
  /\ Len(transactions) = 2
  /\ transactions[1].amount + transactions[2].amount = TotalCredit
  /\ TotalCredit = TotalDebt

\* C5: the balances compute_balances returns sum to at most N x 0.01 in
\* absolute value, N the number of participants (N = 0 included).
C5_ZeroSumWithinTolerance ==
  pc # "compute" => Abs(SeqSum(balances)) <= Len(names) * Cent

\* the per-person rounding errors add up to a drift of two cents
C5_Witness ==
  /\ pc = "classify"
  /\ Len(names) >= 3
  /\ Abs(SeqSum(balances)) = 2 * Cent

C8_ToleranceExcluded ==
  /\ \A k \in 1..Len(creditors) : balances[creditors[k].name] > Cent
  /\ \A k \in 1..Len(debtors) : balances[debtors[k].name] < -Cent
  /\ \A t \in TxIdx :
       /\ balances[transactions[t].payer] < -Cent
       /\ balances[transactions[t].receiver] > Cent

\* a payment was made beside a participant owing, or owed, exactly 0.01
C8_Witness ==
  /\ Done
  /\ Len(transactions) >= 1
  /\ \E k \in People : Abs(balances[k]) = Cent

\* whether p comes no later than q in the order largest first, ties by insertion
NoLater(p, q, size) ==
  \/ p = q
  \/ size[p] > size[q]
  \/ size[p] = size[q] /\ p < q

\* C9: payers appear in order of non-increasing original debt and receivers
\* in order of non-increasing original credit, each participant's
\* transactions contiguous, equal amounts in insertion order.
C9_LargestFirstStable ==
  \A s, t \in TxIdx :
    s < t =>
      /\ NoLater(transactions[s].payer, transactions[t].payer,
                 [k \in People |-> -balances[k]])
      /\ NoLater(transactions[s].receiver, transactions[t].receiver,
                 [k \in People |-> balances[k]])

\* the scenario {A: 3x, B: -x, C: -x, D: -x}: payers B, C, D in that order
C9_Witness ==
  /\ Done
  /\ Len(balances) = 4
  /\ balances[2] < -Cent
  /\ balances[3] = balances[2]
  /\ balances[4] = balances[2]
  /\ balances[1] = -3 * balances[2]
  /\ Len(transactions) = 3
  /\ \A t \in 1..3 : transactions[t].payer = t + 1 /\ transactions[t].receiver = 1

\* C10: on a mapping in whole cents, the transaction amounts sum to
\* min(total debt, total credit) of the classified participants; at the end
\* the smaller side has nothing left and the larger side the difference.
C10_TotalIsMin ==
  (Done /\ WholeCents(balances)) =>
    /\ TotalAmount = Min(TotalDebt, TotalCredit)
    /\ Remaining(debtors) = TotalDebt - Min(TotalDebt, TotalCredit)
    /\ Remaining(creditors) = TotalCredit - Min(TotalDebt, TotalCredit)
    /\ TotalDebt <= TotalCredit => \A k \in 1..Len(debtors) : debtors[k].amt = 0
    /\ TotalCredit <= TotalDebt => \A k \in 1..Len(creditors) : creditors[k].amt = 0

\* several payments were made and a remainder is left on the larger side
C10_Witness ==
  /\ Done
  /\ Len(transactions) >= 3
  /\ TotalDebt > TotalCredit
  /\ Remaining(debtors) >= 2 * Cent

=============================================================================
